---- MODULE Spec2Model ----
(***************************************************************************)
(* Model of the ADB bridge of TinkerUp/adb-server                          *)
(* (src/internal/adb/adb-client.go): the cancellable operations Version,   *)
(* Devices and Packages, each of which runs its transport calls on a       *)
(* worker goroutine and races the worker's completion channel against      *)
(* ctx.Done(), and the device-state watcher TrackDeviceStates.             *)
(*                                                                         *)
(* Go strings that the code trims or scans are sequences of one-character  *)
(* strings; a Go select is a choice among the cases that are ready.        *)
(***************************************************************************)
EXTENDS Integers, Sequences, FiniteSets, TLC

\* ------------------------------------------------------------------ bounds

\* Longest device list the transport returns.
MaxDevices == 2

\* ------------------------------------------------------- values of the code

\* The calls in flight; each has its own context, worker and channel.
Calls == {"c1"}

Ops == {"Version", "Devices", "Packages"}

\* The methods the ADBClient interface declares, each with a context first.
ADBClientMethods == {"Version", "Devices", "TrackDeviceStates", "Packages",
                     "Install", "Uninstall", "Pull", "Push"}

\* The exported methods GoADBClient has.
GoADBClientMethods == Ops \cup {"TrackDeviceStates"}

\* adb.DeviceState of the transport library.
RawStates == {"StateInvalid", "StateUnauthorized", "StateDisconnected",
              "StateOffline", "StateOnline"}

DeviceStateOffline == "offline"
DeviceStateBooting == "booting"
DeviceStateUnauthorized == "unauthorized"
DeviceStateOnline == "online"
DeviceStateUnknown == "unknown"

\* The closed enum models.DeviceState.
DeviceState == {DeviceStateOffline, DeviceStateBooting, DeviceStateUnauthorized,
                DeviceStateOnline, DeviceStateUnknown}

\* unicode.IsSpace for the characters the model uses.
Space == {" ", "\n", "\t", "\r"}

\* The literal "Unknown" of devices().
Unknown == <<"U", "n", "k", "n", "o", "w", "n">>

\* errors
ErrNil == "nil"
ErrTransport == "transport error"
ErrCanceled == "context canceled"

\* ---------------------------------------------------------- pure functions

\* Bug: a device that is not connected is reported as booting.
convertStateBooting(state) ==
    CASE state = "StateOnline" -> DeviceStateOnline
      [] state = "StateOffline" -> DeviceStateOffline
      [] state = "StateUnauthorized" -> DeviceStateUnauthorized
      [] state = "StateDisconnected" -> DeviceStateBooting
      [] OTHER -> DeviceStateUnknown

\* GoADBClient.convertState
convertState(state) ==
    CASE state = "StateOnline" -> DeviceStateOnline
      [] state = "StateOffline" -> DeviceStateOffline
      [] state = "StateUnauthorized" -> DeviceStateUnauthorized
      [] OTHER -> DeviceStateUnknown

RECURSIVE TrimLeft(_)
TrimLeft(s) ==
    IF s # <<>> /\ Head(s) \in Space THEN TrimLeft(Tail(s)) ELSE s

RECURSIVE TrimRight(_)
TrimRight(s) ==
    IF s # <<>> /\ s[Len(s)] \in Space
    THEN TrimRight(SubSeq(s, 1, Len(s) - 1))
    ELSE s

\* strings.TrimSpace
TrimSpace(s) == TrimRight(TrimLeft(s))

\* strings.HasPrefix
HasPrefix(s, prefix) ==
    Len(s) >= Len(prefix) /\ SubSeq(s, 1, Len(prefix)) = prefix

\* strings.TrimPrefix
TrimPrefix(s, prefix) ==
    IF HasPrefix(s, prefix) THEN SubSeq(s, Len(prefix) + 1, Len(s)) ELSE s

\* strings.LastIndex for a one-character separator: Go's 0-based index, -1 if absent.
LastIndex(s, ch) ==
    LET hits == {i \in 1..Len(s) : s[i] = ch}
    IN  IF hits = {} THEN -1
        ELSE (CHOOSE i \in hits : \A j \in hits : j <= i) - 1

\* strings.Contains
Contains(s, sub) ==
    \E i \in 0..(Len(s) - Len(sub)) : SubSeq(s, i + 1, i + Len(sub)) = sub

\* bufio.ScanLines drops one trailing carriage return of a line.
DropCR(line) ==
    IF line # <<>> /\ line[Len(line)] = "\r"
    THEN SubSeq(line, 1, Len(line) - 1)
    ELSE line

\* bufio.Scanner over the command output: the lines, without their terminators;
\* a final unterminated line counts when it is not empty.
RECURSIVE ScanFrom(_, _)
ScanFrom(s, cur) ==
    IF s = <<>>
    THEN IF cur = <<>> THEN <<>> ELSE <<DropCR(cur)>>
    ELSE IF Head(s) = "\n"
         THEN <<DropCR(cur)>> \o ScanFrom(Tail(s), <<>>)
         ELSE ScanFrom(Tail(s), Append(cur, Head(s)))

ScanLines(out) == ScanFrom(out, <<>>)

PackagePrefix == <<"p", "a", "c", "k", "a", "g", "e", ":">>
SystemSegment == <<"/", "s", "y", "s", "t", "e", "m", "/">>

\* One iteration of the scanner loop of packages(): the records the line adds.
ParseLine(text) ==
    LET line == TrimSpace(text)
        indexOfEqual == LastIndex(line, "=")
    IN  IF line = <<>> \/ ~HasPrefix(line, PackagePrefix) \/ indexOfEqual = -1
        THEN <<>>
        ELSE LET pkgPath == TrimPrefix(SubSeq(line, 1, indexOfEqual), PackagePrefix)
                 pkgName == TrimSpace(SubSeq(line, indexOfEqual + 2, Len(line)))
             IN  <<[Name |-> pkgName, ApkPath |-> pkgPath,
                    IsSystem |-> Contains(pkgPath, SystemSegment)]>>

RECURSIVE ParseLines(_)
ParseLines(lines) ==
    IF lines = <<>> THEN <<>>
    ELSE ParseLine(Head(lines)) \o ParseLines(Tail(lines))

\* The scanner loop of packages() over the whole command output.
ParsePackages(out) == ParseLines(ScanLines(out))

\* bufio.MaxScanTokenSize: the buffer of the scanner packages() makes.
MaxScanTokenSize == 65536

\* One element of a text that stands for a run of MaxScanTokenSize bytes, none
\* of them a space, a line terminator or a character the parser looks for.
LongRun == "x*65536"

\* len() of a text in bytes.
RECURSIVE ByteLen(_)
ByteLen(s) ==
    IF s = <<>> THEN 0
    ELSE (IF Head(s) = LongRun THEN MaxScanTokenSize ELSE 1) + ByteLen(Tail(s))

\* The lines of a text as the scanner's buffer has to hold them: up to their
\* line feed, a carriage return included.
RECURSIVE SplitFrom(_, _)
SplitFrom(s, cur) ==
    IF s = <<>>
    THEN IF cur = <<>> THEN <<>> ELSE <<cur>>
    ELSE IF Head(s) = "\n"
         THEN <<cur>> \o SplitFrom(Tail(s), <<>>)
         ELSE SplitFrom(Tail(s), Append(cur, Head(s)))

ErrTooLong == "bufio.Scanner: token too long"

\* scanner.Err() after the loop: Scan() stops with ErrTooLong at a line that
\* does not fit in the buffer.
ScannerErr(out) ==
    LET lines == SplitFrom(out, <<>>)
    IN  IF \E i \in 1..Len(lines) : ByteLen(lines[i]) >= MaxScanTokenSize
        THEN ErrTooLong
        ELSE ErrNil

\* Bug: `-3` is appended whatever IncludeSystem says.
PackageArgsThirdPartyAlways(opts) ==
    <<"-f">>
    \o (IF opts.IncludeUninstalled THEN <<"-u">> ELSE <<>>)
    \o (IF opts.IncludeSystem THEN <<"-s">> ELSE <<>>)
    \o <<"-3">>

\* The argument list packages() builds from the options.
PackageArgs(opts) ==
    <<"-f">>
    \o (IF opts.IncludeUninstalled THEN <<"-u">> ELSE <<>>)
    \o (IF opts.IncludeSystem THEN <<"-s">> ELSE <<"-3">>)

\* getDeviceManufacturer: the trimmed property, "" with the error.
getDeviceManufacturer(reply) ==
    IF reply.err # ErrNil THEN <<>> ELSE TrimSpace(reply.out)

\* Bug: every device that is not explicitly unauthorized counts as authorized.
MakeDeviceAuthorizedUnlessRefused(deviceInfo, deviceState, deviceManufacturer) ==
    LET manufacturer == IF deviceManufacturer = <<>> THEN Unknown
                        ELSE deviceManufacturer
        standardizedState == convertState(deviceState)
    IN  [Serial |-> deviceInfo.Serial,
         State |-> standardizedState,
         Model |-> deviceInfo.Model,
         Manufacturer |-> manufacturer,
         IsAuthorized |-> (standardizedState # DeviceStateUnauthorized)]

\* The Device record devices() appends for one enumerated device, given the
\* raw state it settled on and the manufacturer text it read ("" when none).
MakeDevice(deviceInfo, deviceState, deviceManufacturer) ==
    LET manufacturer == IF deviceManufacturer = <<>> THEN Unknown
                        ELSE deviceManufacturer
        standardizedState == convertState(deviceState)
    IN  [Serial |-> deviceInfo.Serial,
         State |-> standardizedState,
         Model |-> deviceInfo.Model,
         Manufacturer |-> manufacturer,
         IsAuthorized |-> (standardizedState = DeviceStateOnline)]

\* Bug: the manufacturer is queried whatever the state query gave.
QueriesManufacturerAlways(stateErr) == TRUE

\* `if stateErr != nil {...} else { getDeviceManufacturer }` of devices().
QueriesManufacturer(stateErr) == stateErr = ErrNil

\* Bug: the record is put in front of the list.
AppendDeviceFront(list, device) == <<device>> \o list

\* `devicesList = append(devicesList, ...)` of devices().
AppendDevice(list, device) == Append(list, device)

\* ------------------------------------------------- the transport's replies

Serials == {"X", "Y"}

\* Entries of adb.ListDevices(): a serial and the model the transport reports.
DeviceInfos == {[Serial |-> "X", Model |-> "Pixel"],
                [Serial |-> "Y", Model |-> "Galaxy"]}

DeviceLists == UNION {[1..k -> DeviceInfos] : k \in 0..MaxDevices}

\* adb.ServerVersion()
VersionReplies == {[ver |-> 41, err |-> ErrNil], [ver |-> 0, err |-> ErrTransport]}

\* device.State(): a state, or an error, whose state is then not to be used.
StateReplies == {[state |-> s, err |-> ErrNil] : s \in RawStates}
                \cup {[state |-> s, err |-> ErrTransport] :
                          s \in {"StateInvalid", "StateOnline"}}

\* Raw output of `getprop ro.product.manufacturer`.
ManufacturerOutputs == {<<>>, <<" ", "\n">>, <<" ", "A", "c", "m", "e", "\n">>}

\* device.RunCommand("getprop", ...)
PropReplies == {[out |-> o, err |-> ErrNil] : o \in ManufacturerOutputs}
               \cup {[out |-> <<>>, err |-> ErrTransport]}

LineData == PackagePrefix \o <<"/", "d", "/", "a", "=", "b">>
LineSystem == PackagePrefix \o SystemSegment \o <<"s", "=", "c">>

\* Raw output of `pm list packages`.
PackageOutputs == {<<>>,
                   LineData \o <<"\n">> \o LineSystem \o <<"\n">>,
                   <<"x", "\n">> \o LineSystem,
                   LineData \o <<"\n", LongRun, "\n">>}

\* device.RunCommand("pm list packages", ...)
CommandReplies == {[out |-> o, err |-> ErrNil] : o \in PackageOutputs}
                  \cup {[out |-> <<>>, err |-> "command error"]}

ListPackageOptions == [IncludeSystem : BOOLEAN, IncludeUninstalled : BOOLEAN]

\* What a call is made with besides its context.
NoArg == [deviceId |-> "", opts |-> [IncludeSystem |-> FALSE, IncludeUninstalled |-> FALSE]]
CallArgs(o) ==
    IF o = "Packages" THEN [deviceId : Serials, opts : ListPackageOptions]
    ELSE {NoArg}

\* A Go slice result: nil, or its items.
NilList == [nil |-> TRUE, items |-> <<>>]
List(items) == [nil |-> FALSE, items |-> items]

\* `var packages []models.Package` stays nil until the first append.
PackageList(pkgs) == IF pkgs = <<>> THEN NilList ELSE List(pkgs)

\* packages() from the command's output on: the scanner loop, then
\* `return nil, err` on a scanner error and `return packages, nil` otherwise.
ScanPackages(out) ==
    IF ScannerErr(out) # ErrNil
    THEN [val |-> NilList, err |-> ScannerErr(out)]
    ELSE [val |-> PackageList(ParsePackages(out)), err |-> ErrNil]

NoResult == [val |-> 0, err |-> "none"]

\* --------------------------------------------------------- the file service

\* A path is the sequence of its elements, each a text; Root is "/d/r".
Dots == <<".", ".">>
Root == <<<<"d">>, <<"r">>>>

\* What is on disk before the service runs: "/" and "/d".
InitialDirs == {<<>>, <<<<"d">>>>}

\* filepath.Clean of an absolute path given by its elements: `..` drops the
\* element before it, and stays at "/".
RECURSIVE CleanFrom(_, _)
CleanFrom(elems, acc) ==
    IF elems = <<>> THEN acc
    ELSE IF Head(elems) = Dots
         THEN CleanFrom(Tail(elems),
                        IF acc = <<>> THEN <<>> ELSE SubSeq(acc, 1, Len(acc) - 1))
         ELSE CleanFrom(Tail(elems), Append(acc, Head(elems)))

Clean(elems) == CleanFrom(elems, <<>>)

\* filepath.Join: the elements of both, cleaned.
Join(dir, rel) == Clean(dir \o rel)

\* filepath.Base
Base(filename) ==
    IF filename = <<>> THEN <<".">> ELSE filename[Len(filename)]

\* The path as the string the code compares: "/" and its elements.
RECURSIVE PathElems(_)
PathElems(elems) ==
    IF elems = <<>> THEN <<>>
    ELSE <<"/">> \o Head(elems) \o PathElems(Tail(elems))

PathString(path) == IF path = <<>> THEN <<"/">> ELSE PathElems(path)

\* `!strings.HasPrefix(cleanFilePath, s.config.Root)`
EscapesRoot(path) == ~HasPrefix(PathString(path), PathString(Root))

\* os.MkdirAll: the directory and every parent of it exist afterwards.
MkdirAll(have, path) == have \cup {SubSeq(path, 1, n) : n \in 0..Len(path)}

\* hex(sha256.Sum256(data)): one digest per content.
Sum256(data) == <<"sha256", data>>

\* The owners SaveFile and GetFile are called with, split at the separators:
\* "", "u", "..", "../rx", "../u", "u/..".
Owners == {<<>>, <<<<"u">>>>, <<Dots>>, <<Dots, <<"r", "x">>>>,
           <<Dots, <<"u">>>>, <<<<"u">>, Dots>>}

\* filename arguments: "a", "../a", "..".
Filenames == {<<<<"a">>>>, <<Dots, <<"a">>>>, <<Dots>>}

\* fileExtension arguments, and the ones the configuration allows.
Extensions == {<<"t">>, <<"e">>}
AllowedFileExtensions == {<<"t">>}
validateFileExtension(fileExtension) == fileExtension \in AllowedFileExtensions

\* File contents.
Datas == {<<>>, <<7>>, <<7, 8>>}

\* The n-th id uuid.NewString() hands out.
FileId(n) == [k \in 1..n |-> "i"]

\* Before any call of the service.
NoCall == [op |-> "none", owner |-> <<>>, id |-> <<>>, path |-> <<>>,
           changed |-> FALSE, err |-> ErrNil, data |-> <<>>, row |-> <<>>]

\* ---------------------------------------------------------------- the state

VARIABLES
    op,           \* per call: the operation called, "none" before the call
    arg,          \* per call: its arguments
    pc,           \* per call: the caller: "idle", "select" or "returned"
    ctxDone,      \* per call: whether ctx.Done() is closed
    first,        \* per call: which of cancellation and completion came first
    wk,           \* per call: the worker goroutine's position
    wres,         \* per call: the result the worker sends on its channel
    ret,          \* per call: what the operation returned
    devs,         \* per call: `devices`, the transport's list, in devices()
    idx,          \* per call: position of the range loop of devices()
    deviceState,  \* per call: `deviceState` of the current iteration
    devicesList,  \* per call: `devicesList` of devices()
    tlog          \* per call: the transport calls the worker has issued

callVars == <<op, arg, pc, ctxDone, first, wk, wres, ret, devs, idx, deviceState,
              devicesList, tlog>>

VARIABLES
    wserial,      \* per watcher: `deviceSerial` of TrackDeviceStates
    wctx,         \* per watcher: whether its ctx.Done() is closed
    wpc,          \* per watcher: the goroutine: "idle", "select", "deliver", "closed"
    upOffer,      \* per watcher: the event the transport is sending on goAdbChannel
    upClosed,     \* per watcher: whether the transport closed goAdbChannel
    pending,      \* per watcher: `stateChange` of the delivery in progress
    consumed,     \* per watcher: the events received from goAdbChannel, in order
    delivered,    \* per watcher: the changes the consumer received, in order
    closes        \* per watcher: how often close(stateChannel) has run

watchVars == <<wserial, wctx, wpc, upOffer, upClosed, pending, consumed, delivered,
               closes>>

VARIABLES
    pmOut,        \* the output `pm list packages` has written so far
    pmCount,      \* the number of pieces it has written
    pmResult      \* what packages() made of the output, err "none" before

parseVars == <<pmOut, pmCount, pmResult>>

VARIABLES
    wcaller       \* per watcher: the thread that calls TrackDeviceStates:
                  \* "idle", "NewDeviceWatcher" or "returned"

threadVars == <<wcaller>>

VARIABLES
    dirs,         \* the directories on disk, as cleaned paths
    files,        \* the files on disk: their path and content
    fileIndex,    \* the rows of the table file_index
    saved,        \* the number of file ids handed out
    fsRet         \* the last call of the file service and what it returned

fileVars == <<dirs, files, fileIndex, saved, fsRet>>

vars == <<callVars, watchVars, parseVars, threadVars, fileVars>>

CallInit ==
    /\ op = [c \in Calls |-> "none"]
    /\ arg = [c \in Calls |-> NoArg]
    /\ pc = [c \in Calls |-> "idle"]
    /\ ctxDone = [c \in Calls |-> FALSE]
    /\ first = [c \in Calls |-> "none"]
    /\ wk = [c \in Calls |-> "none"]
    /\ wres = [c \in Calls |-> NoResult]
    /\ ret = [c \in Calls |-> NoResult]
    /\ devs = [c \in Calls |-> <<>>]
    /\ idx = [c \in Calls |-> 0]
    /\ deviceState = [c \in Calls |-> "StateInvalid"]
    /\ devicesList = [c \in Calls |-> <<>>]
    /\ tlog = [c \in Calls |-> <<>>]

\* The watchers; each has its own context, subscription and output channel.
Watchers == {"w1"}

WatchInit ==
    /\ wserial = [w \in Watchers |-> ""]
    /\ wctx = [w \in Watchers |-> FALSE]
    /\ wpc = [w \in Watchers |-> "idle"]
    /\ upOffer = [w \in Watchers |-> <<>>]
    /\ upClosed = [w \in Watchers |-> FALSE]
    /\ pending = [w \in Watchers |-> <<>>]
    /\ consumed = [w \in Watchers |-> <<>>]
    /\ delivered = [w \in Watchers |-> <<>>]
    /\ closes = [w \in Watchers |-> 0]

ParseInit ==
    /\ pmOut = <<>>
    /\ pmCount = 0
    /\ pmResult = [val |-> NilList, err |-> "none"]

ThreadInit == wcaller = [w \in Watchers |-> "idle"]

FileInit ==
    /\ dirs = InitialDirs
    /\ files = {}
    /\ fileIndex = {}
    /\ saved = 0
    /\ fsRet = NoCall

Init == CallInit /\ WatchInit /\ ParseInit /\ ThreadInit /\ FileInit

\* The worker's function returned: it blocks on `ch <- result`.
Completes(c, val, err) ==
    /\ wres' = [wres EXCEPT ![c] = [val |-> val, err |-> err]]
    /\ first' = [first EXCEPT ![c] = IF @ = "none" THEN "result" ELSE @]

\* The transport log: each call the worker issued, with its reply once it
\* has returned.
Issue(log, call, target, args) ==
    Append(log, [call |-> call, target |-> target, args |-> args, reply |-> <<>>])

Answer(log, r) == [log EXCEPT ![Len(log)].reply = <<r>>]

\* The transport call the worker of operation o starts with.
FirstStep(o) ==
    CASE o = "Version" -> "ServerVersion"
      [] o = "Devices" -> "ListDevices"
      [] o = "Packages" -> "getDevice"

\* The transport calls a worker has issued when it starts.
FirstLog(o) ==
    CASE o = "Version" -> Issue(<<>>, "ServerVersion", "", <<>>)
      [] o = "Devices" -> Issue(<<>>, "ListDevices", "", <<>>)
      [] o = "Packages" -> <<>>

\* Version, Devices or Packages is called: it makes its channel and starts
\* its worker, and stands before its select.
Call(c) ==
    /\ pc[c] = "idle"
    /\ \E o \in Ops : \E a \in CallArgs(o) :
         /\ op' = [op EXCEPT ![c] = o]
         /\ arg' = [arg EXCEPT ![c] = a]
         /\ wk' = [wk EXCEPT ![c] = FirstStep(o)]
         /\ tlog' = [tlog EXCEPT ![c] = FirstLog(o)]
    /\ pc' = [pc EXCEPT ![c] = "select"]
    /\ UNCHANGED <<ctxDone, first, wres, ret, devs, idx, deviceState, devicesList, watchVars, parseVars, threadVars, fileVars>>

\* The caller's context is cancelled (or its deadline passes).
Cancel(c) ==
    /\ ~ctxDone[c]
    /\ ctxDone' = [ctxDone EXCEPT ![c] = TRUE]
    /\ first' = [first EXCEPT ![c] = IF @ = "none" THEN "cancel" ELSE @]
    /\ UNCHANGED <<op, arg, pc, wk, wres, ret, devs, idx, deviceState, devicesList, tlog, watchVars, parseVars, threadVars, fileVars>>

\* Version's worker: adb.ServerVersion() returns.
ServerVersionReturns(c) ==
    /\ wk[c] = "ServerVersion"
    /\ \E r \in VersionReplies :
         /\ Completes(c, r.ver, r.err)
         /\ tlog' = [tlog EXCEPT ![c] = Answer(@, r)]
    /\ wk' = [wk EXCEPT ![c] = "send"]
    /\ UNCHANGED <<op, arg, pc, ctxDone, ret, devs, idx, deviceState, devicesList, watchVars, parseVars, threadVars, fileVars>>

\* Bug: the state the failed query came with is kept.
FailedStateKept(r) == r.state

\* `deviceState = adb.StateInvalid` after a failed state query.
FailedState(r) == "StateInvalid"

\* Bug: the enumeration stops early once the context is cancelled.
LoopEndsOnCancel(c) == idx[c] >= Len(devs[c]) \/ ctxDone[c]

\* The range loop of devices() has gone through every device.
LoopEnds(c) == idx[c] >= Len(devs[c])

\* Bug: an error of ListDevices is swallowed.
ListErrorSwallowed(err) == [val |-> List(<<>>), err |-> ErrNil]

\* `return nil, err` of devices().
ListError(err) == [val |-> NilList, err |-> err]

\* devices(): the iteration for device idx[c] has appended its record, giving
\* `list`, with the transport log at `log`: the range loop moves to the next
\* device and queries its state, or the function returns the list.
LoopOn(c, list, log) ==
    /\ devicesList' = [devicesList EXCEPT ![c] = list]
    /\ IF LoopEnds(c)
       THEN /\ Completes(c, List(list), ErrNil)
            /\ wk' = [wk EXCEPT ![c] = "send"]
            /\ tlog' = [tlog EXCEPT ![c] = log]
            /\ UNCHANGED idx
       ELSE /\ idx' = [idx EXCEPT ![c] = @ + 1]
            /\ wk' = [wk EXCEPT ![c] = "State"]
            /\ tlog' = [tlog EXCEPT ![c] =
                          Issue(log, "State", devs[c][idx[c] + 1].Serial, <<>>)]
            /\ UNCHANGED <<wres, first>>

\* devices(): adb.ListDevices() returns.  On an error the function returns it;
\* otherwise the loop starts (or, for an empty list, the function returns).
ListDevicesReturns(c) ==
    /\ wk[c] = "ListDevices"
    /\ \/ LET r == [list |-> <<>>, err |-> ErrTransport]
          IN  /\ Completes(c, ListError(r.err).val, ListError(r.err).err)
              /\ wk' = [wk EXCEPT ![c] = "send"]
              /\ tlog' = [tlog EXCEPT ![c] = Answer(@, r)]
              /\ UNCHANGED <<devs, idx, devicesList>>
       \/ \E ds \in DeviceLists :
            LET r == [list |-> ds, err |-> ErrNil]
            IN  /\ devs' = [devs EXCEPT ![c] = ds]
                /\ devicesList' = [devicesList EXCEPT ![c] = <<>>]
                /\ IF ds = <<>>
                   THEN /\ Completes(c, List(<<>>), ErrNil)
                        /\ wk' = [wk EXCEPT ![c] = "send"]
                        /\ tlog' = [tlog EXCEPT ![c] = Answer(@, r)]
                        /\ UNCHANGED idx
                   ELSE /\ idx' = [idx EXCEPT ![c] = 1]
                        /\ wk' = [wk EXCEPT ![c] = "State"]
                        /\ tlog' = [tlog EXCEPT ![c] =
                                      Issue(Answer(@, r), "State", ds[1].Serial, <<>>)]
                        /\ UNCHANGED <<wres, first>>
    /\ UNCHANGED <<op, arg, pc, ctxDone, ret, deviceState, watchVars, parseVars, threadVars, fileVars>>

\* devices(): device.State() returns for the current device.  On an error the
\* state becomes StateInvalid and the record is appended without a
\* manufacturer query; otherwise the manufacturer is queried.
StateReturns(c) ==
    /\ wk[c] = "State"
    /\ \E r \in StateReplies :
         LET state == IF r.err # ErrNil THEN FailedState(r) ELSE r.state
             log == Answer(tlog[c], r)
         IN  /\ deviceState' = [deviceState EXCEPT ![c] = state]
             /\ IF QueriesManufacturer(r.err)
                THEN /\ wk' = [wk EXCEPT ![c] = "getprop"]
                     /\ tlog' = [tlog EXCEPT ![c] =
                                   Issue(log, "getprop", devs[c][idx[c]].Serial,
                                         <<"ro.product.manufacturer">>)]
                     /\ UNCHANGED <<wres, first, idx, devicesList>>
                ELSE LoopOn(c, AppendDevice(devicesList[c],
                                            MakeDevice(devs[c][idx[c]], state, <<>>)),
                            log)
    /\ UNCHANGED <<op, arg, pc, ctxDone, ret, devs, watchVars, parseVars, threadVars, fileVars>>

\* devices(): the manufacturer query returns and the record is appended.
GetpropReturns(c) ==
    /\ wk[c] = "getprop"
    /\ \E r \in PropReplies :
         LoopOn(c, AppendDevice(devicesList[c],
                                MakeDevice(devs[c][idx[c]], deviceState[c],
                                           getDeviceManufacturer(r))),
                Answer(tlog[c], r))
    /\ UNCHANGED <<op, arg, pc, ctxDone, ret, devs, deviceState, watchVars, parseVars, threadVars, fileVars>>

\* Whether getDevice resolves a handle for a serial.
Resolves == BOOLEAN

\* Bug: the handle is used without looking at it.
HandleMissingNever(found) == FALSE

\* `device == nil`
HandleMissing(found) == ~found

\* packages(): the handle is resolved; without one the function returns
\* "device not found", with one it runs `pm list packages` with its arguments.
GetDeviceReturns(c) ==
    /\ wk[c] = "getDevice"
    /\ \E found \in Resolves :
         LET log == Answer(Issue(tlog[c], "Device", arg[c].deviceId, <<>>),
                           [handle |-> found, err |-> ErrNil])
         IN  IF HandleMissing(found)
             THEN /\ Completes(c, NilList, "device not found")
                  /\ wk' = [wk EXCEPT ![c] = "send"]
                  /\ tlog' = [tlog EXCEPT ![c] = log]
             ELSE /\ wk' = [wk EXCEPT ![c] = "RunCommand"]
                  /\ tlog' = [tlog EXCEPT ![c] =
                                Issue(log, "pm list packages", arg[c].deviceId,
                                      PackageArgs(arg[c].opts))]
                  /\ UNCHANGED <<wres, first>>
    /\ UNCHANGED <<op, arg, pc, ctxDone, ret, devs, idx, deviceState, devicesList, watchVars, parseVars, threadVars, fileVars>>

\* packages(): the command returns; its error is returned, its output parsed.
RunCommandReturns(c) ==
    /\ wk[c] = "RunCommand"
    /\ \E r \in CommandReplies :
         /\ IF r.err # ErrNil
            THEN Completes(c, NilList, r.err)
            ELSE Completes(c, ScanPackages(r.out).val, ScanPackages(r.out).err)
         /\ tlog' = [tlog EXCEPT ![c] = Answer(@, r)]
    /\ wk' = [wk EXCEPT ![c] = "send"]
    /\ UNCHANGED <<op, arg, pc, ctxDone, ret, devs, idx, deviceState, devicesList, watchVars, parseVars, threadVars, fileVars>>

\* Bug: the ctx.Done() case returns no error.
CancelReturnNoError(o) ==
    [val |-> IF o = "Version" THEN 0 ELSE NilList, err |-> ErrNil]

\* What the ctx.Done() case of operation o returns.
CancelReturn(o) ==
    [val |-> IF o = "Version" THEN 0 ELSE NilList, err |-> ErrCanceled]

\* Bug: the caller waits for its worker alone.
DoneReadyNever(c) == FALSE

\* Bug: one channel, made with the client, carries the results of every call.
resultChannelOfClient(c) == "client"

\* `resultChannel := make(chan result)`: the channel a call makes for itself.
resultChannel(c) == c

\* The workers blocked sending on the channel call c receives from.
Senders(c) ==
    {d \in DOMAIN wk : resultChannel(d) = resultChannel(c) /\ wk[d] = "send"}

\* The cases of the caller's select that are ready.
DoneReady(c) == ctxDone[c]
ResultReady(c) == Senders(c) # {}

\* The select takes `case result := <-ch`: a blocked worker's send completes
\* and the operation returns that worker's value and error.
SelectResult(c) ==
    /\ pc[c] = "select"
    /\ \E d \in Senders(c) :
         /\ ret' = [ret EXCEPT ![c] = wres[d]]
         /\ wk' = [wk EXCEPT ![d] = "done"]
    /\ pc' = [pc EXCEPT ![c] = "returned"]
    /\ UNCHANGED <<op, arg, ctxDone, first, wres, devs, idx, deviceState, devicesList, tlog, watchVars, parseVars, threadVars, fileVars>>

\* The select takes `case <-ctx.Done()`: the operation returns ctx.Err().
SelectCancel(c) ==
    /\ pc[c] = "select"
    /\ DoneReady(c)
    /\ ret' = [ret EXCEPT ![c] = CancelReturn(op[c])]
    /\ pc' = [pc EXCEPT ![c] = "returned"]
    /\ UNCHANGED <<op, arg, ctxDone, first, wk, wres, devs, idx, deviceState, devicesList, tlog, watchVars, parseVars, threadVars, fileVars>>

CallNext ==
    \E c \in Calls :
        \/ Call(c)
        \/ Cancel(c)
        \/ ServerVersionReturns(c)
        \/ ListDevicesReturns(c)
        \/ StateReturns(c)
        \/ GetpropReturns(c)
        \/ GetDeviceReturns(c)
        \/ RunCommandReturns(c)
        \/ SelectResult(c)
        \/ SelectCancel(c)

Next == CallNext

Spec == Init /\ [][Next]_vars

\* The Go scheduler runs a caller whose select has a ready case.  Nothing
\* makes a transport call return.
Select(c) == SelectResult(c) \/ SelectCancel(c)

FairSpec == Spec /\ \A c \in Calls : WF_vars(Select(c))

\* --------------------------------------------------------------- the watcher

\* Events the transport sends in all, per watcher.
MaxEvents == 3

\* The state transitions the transport's device watcher reports.
Transitions == {<<"StateDisconnected", "StateOffline">>,
                <<"StateOffline", "StateOnline">>,
                <<"StateOnline", "StateDisconnected">>,
                <<"StateOffline", "StateUnauthorized">>}

\* adb.DeviceStateChangedEvent values on goAdbChannel.
WatchEvents == {[Serial |-> s, OldState |-> t[1], NewState |-> t[2]] :
                    s \in Serials, t \in Transitions}

\* Bug: the serial is not compared.
WatchesAny(deviceSerial, watcher) == TRUE

\* `watcher.Serial == deviceSerial`
Watches(deviceSerial, watcher) == watcher.Serial = deviceSerial

\* The models.DeviceStateChange built for a matching event.  Its Timestamp
\* (time.Now()) is left out: nothing below reads it.
StateChange(deviceSerial, watcher) ==
    [Serial |-> deviceSerial,
     OldState |-> convertState(watcher.OldState),
     NewState |-> convertState(watcher.NewState)]

\* Bug: a later change overtakes the earlier ones.
HandoffFront(received, stateChange) == <<stateChange>> \o received

\* `stateChannel <- stateChange` completes: the consumer has one more value.
Handoff(received, stateChange) == Append(received, stateChange)

\* Bug: the delivery is a plain send, not raced against ctx.Done().
DeliverDoneNever(w) == FALSE

\* Bug: the `ok` of the receive is not looked at.
UpstreamClosedNever(w) == FALSE

\* Bug: the channel is closed before the return as well as by the defer.
ClosedTwice(n) == n + 2

\* `defer close(stateChannel)` runs when the goroutine returns.
DeferredClose(n) == n + 1

\* The ready cases of the watcher's selects.
WatchDoneReady(w) == wctx[w]
DeliverDoneReady(w) == wctx[w]
EventReady(w) == upOffer[w] # <<>>
UpstreamClosedReady(w) == upClosed[w] /\ upOffer[w] = <<>>

\* TrackDeviceStates is called: the calling thread enters
\* client.adb.NewDeviceWatcher() to subscribe to the transport's events.
Subscribe(w) ==
    /\ wcaller[w] = "idle"
    /\ wcaller' = [wcaller EXCEPT ![w] = "NewDeviceWatcher"]
    /\ UNCHANGED <<callVars, watchVars, parseVars, fileVars>>

\* The subscription returns: TrackDeviceStates makes stateChannel, starts the
\* goroutine, which stands before its select, and returns the channel.
Track(w) ==
    /\ wcaller[w] = "NewDeviceWatcher"
    /\ wpc[w] = "idle"
    /\ \E s \in Serials : wserial' = [wserial EXCEPT ![w] = s]
    /\ wpc' = [wpc EXCEPT ![w] = "select"]
    /\ wcaller' = [wcaller EXCEPT ![w] = "returned"]
    /\ UNCHANGED <<wctx, upOffer, upClosed, pending, consumed, delivered, closes, callVars, parseVars, fileVars>>

\* The watcher's context is cancelled.
WatchCancel(w) ==
    /\ ~wctx[w]
    /\ wctx' = [wctx EXCEPT ![w] = TRUE]
    /\ UNCHANGED <<wserial, wpc, upOffer, upClosed, pending, consumed, delivered, closes, callVars, parseVars, threadVars, fileVars>>

\* The transport has an event and blocks sending it on goAdbChannel.
UpstreamOffer(w) ==
    /\ wpc[w] # "idle"
    /\ ~upClosed[w]
    /\ upOffer[w] = <<>>
    /\ Len(consumed[w]) < MaxEvents
    /\ \E e \in WatchEvents : upOffer' = [upOffer EXCEPT ![w] = <<e>>]
    /\ UNCHANGED <<wserial, wctx, wpc, upClosed, pending, consumed, delivered, closes, callVars, parseVars, threadVars, fileVars>>

\* The transport closes goAdbChannel, after its last send.
UpstreamClose(w) ==
    /\ wpc[w] # "idle"
    /\ ~upClosed[w]
    /\ upOffer[w] = <<>>
    /\ upClosed' = [upClosed EXCEPT ![w] = TRUE]
    /\ UNCHANGED <<wserial, wctx, wpc, upOffer, pending, consumed, delivered, closes, callVars, parseVars, threadVars, fileVars>>

\* The outer select takes `case <-ctx.Done()`: return, closing stateChannel.
WatcherDone(w) ==
    /\ wpc[w] = "select"
    /\ WatchDoneReady(w)
    /\ wpc' = [wpc EXCEPT ![w] = "closed"]
    /\ closes' = [closes EXCEPT ![w] = DeferredClose(@)]
    /\ UNCHANGED <<wserial, wctx, upOffer, upClosed, pending, consumed, delivered, callVars, parseVars, threadVars, fileVars>>

\* The outer select receives !ok from the closed goAdbChannel: return, closing
\* stateChannel.
WatcherUpstreamClosed(w) ==
    /\ wpc[w] = "select"
    /\ UpstreamClosedReady(w)
    /\ wpc' = [wpc EXCEPT ![w] = "closed"]
    /\ closes' = [closes EXCEPT ![w] = DeferredClose(@)]
    /\ UNCHANGED <<wserial, wctx, upOffer, upClosed, pending, consumed, delivered, callVars, parseVars, threadVars, fileVars>>

\* The outer select receives an event: one of another serial is dropped, one of
\* the watched serial becomes a stateChange and the inner select is entered.
WatcherReceive(w) ==
    /\ wpc[w] = "select"
    /\ EventReady(w)
    /\ LET watcher == upOffer[w][1]
       IN  /\ consumed' = [consumed EXCEPT ![w] = Append(@, watcher)]
           /\ IF Watches(wserial[w], watcher)
              THEN /\ pending' = [pending EXCEPT ![w] =
                                    <<StateChange(wserial[w], watcher)>>]
                   /\ wpc' = [wpc EXCEPT ![w] = "deliver"]
              ELSE UNCHANGED <<pending, wpc>>
    /\ upOffer' = [upOffer EXCEPT ![w] = <<>>]
    /\ UNCHANGED <<wserial, wctx, upClosed, delivered, closes, callVars, parseVars, threadVars, fileVars>>

\* The inner select takes `case stateChannel <- stateChange`: a consumer
\* receives the value, and the loop goes round.
Deliver(w) ==
    /\ wpc[w] = "deliver"
    /\ delivered' = [delivered EXCEPT ![w] = Handoff(@, pending[w][1])]
    /\ pending' = [pending EXCEPT ![w] = <<>>]
    /\ wpc' = [wpc EXCEPT ![w] = "select"]
    /\ UNCHANGED <<wserial, wctx, upOffer, upClosed, consumed, closes, callVars, parseVars, threadVars, fileVars>>

\* The inner select takes `case <-ctx.Done()`: return, closing stateChannel;
\* the stateChange is dropped.
DeliverDone(w) ==
    /\ wpc[w] = "deliver"
    /\ DeliverDoneReady(w)
    /\ pending' = [pending EXCEPT ![w] = <<>>]
    /\ wpc' = [wpc EXCEPT ![w] = "closed"]
    /\ closes' = [closes EXCEPT ![w] = DeferredClose(@)]
    /\ UNCHANGED <<wserial, wctx, upOffer, upClosed, consumed, delivered, callVars, parseVars, threadVars, fileVars>>

WatchNext ==
    \E w \in Watchers :
        \/ Subscribe(w)
        \/ Track(w)
        \/ WatchCancel(w)
        \/ UpstreamOffer(w)
        \/ UpstreamClose(w)
        \/ WatcherDone(w)
        \/ WatcherUpstreamClosed(w)
        \/ WatcherReceive(w)
        \/ Deliver(w)
        \/ DeliverDone(w)

WatchSpec == Init /\ [][WatchNext]_vars

\* The Go scheduler runs the watcher goroutine when a case of its select is
\* ready and takes a case that stays ready.  Nothing makes a consumer receive
\* or the transport send or close.
WatchFairSpec ==
    /\ WatchSpec
    /\ \A w \in Watchers :
          /\ WF_vars(WatcherDone(w))
          /\ WF_vars(DeliverDone(w))
          /\ WF_vars(WatcherUpstreamClosed(w))
          /\ WF_vars(WatcherReceive(w))

\* The same with a consumer that keeps receiving from the output channel.
WatchConsumerSpec == WatchFairSpec /\ \A w \in Watchers : WF_vars(Deliver(w))

\* ---------------------------------------------------------- the parser

\* Pieces written to the command's output, per run.
MaxPieces == 6

\* What `pm list packages` writes, piece by piece.
OutputPieces == {PackagePrefix, SystemSegment, <<"=">>, <<" ">>, <<"\n">>,
                 <<"a">>, <<LongRun>>}

\* The remote command writes one more piece of its output.
PmWrites ==
    /\ pmResult.err = "none"
    /\ pmCount < MaxPieces
    /\ \E piece \in OutputPieces : pmOut' = pmOut \o piece
    /\ pmCount' = pmCount + 1
    /\ UNCHANGED <<pmResult, callVars, watchVars, threadVars, fileVars>>

\* device.RunCommand returns the output and packages() scans it.
PackagesScans ==
    /\ pmResult.err = "none"
    /\ pmResult' = ScanPackages(pmOut)
    /\ UNCHANGED <<pmOut, pmCount, callVars, watchVars, threadVars, fileVars>>

ParseNext == PmWrites \/ PackagesScans

ParseSpec == Init /\ [][ParseNext]_vars

\* --------------------------------------------------- the file service calls

\* File ids handed out in all.
MaxSaves == 1

\* The content of the file at a path; the path holds a file.
HasFile(path) == \E f \in files : f.path = path
ContentOf(path) == (CHOOSE f \in files : f.path = path).data

\* os.WriteFile: the file holds the data afterwards.
WriteFile(have, path, data) ==
    {f \in have : f.path # path} \cup {[path |-> path, data |-> data]}

\* SaveFile(owner, accessGroups, filename, fileExtension, data).  The three
\* flags say whether MkdirAll, WriteFile and the INSERT succeed.
SaveFile ==
    /\ saved < MaxSaves
    /\ \E owner \in Owners, filename \in Filenames, fileExtension \in Extensions,
          data \in Datas, mkdirOk \in BOOLEAN, writeOk \in BOOLEAN, execOk \in BOOLEAN :
         LET sandBoxRoot == Join(Root, owner)
             made == MkdirAll(dirs, sandBoxRoot)
             cleanFileName == Base(filename)
             fileId == FileId(saved + 1)
             fileName == cleanFileName \o <<"-">> \o fileId \o <<".">> \o fileExtension
             absFilePath == Join(sandBoxRoot, <<fileName>>)
             cleanFilePath == Clean(absFilePath)
             fileIndexRow == [ID |-> fileId, Size |-> Len(data), Owner |-> owner,
                              FilePath |-> cleanFilePath, Checksum |-> Sum256(data)]
             call == [NoCall EXCEPT !.op = "SaveFile", !.owner = owner,
                                    !.path = cleanFilePath]
         IN  IF ~mkdirOk
             THEN /\ fsRet' = [call EXCEPT !.err = "failed to create directory"]
                  /\ UNCHANGED <<dirs, files, fileIndex, saved>>
             ELSE
             /\ dirs' = made
             /\ IF ~validateFileExtension(fileExtension)
                THEN /\ fsRet' = [call EXCEPT !.err = "file extension not allowed",
                                              !.changed = (made # dirs)]
                     /\ UNCHANGED <<files, fileIndex, saved>>
                ELSE
                /\ saved' = saved + 1
                /\ IF EscapesRoot(cleanFilePath)
                   THEN /\ fsRet' = [call EXCEPT !.err = "file path escapes root",
                                                 !.id = fileId,
                                                 !.changed = (made # dirs)]
                        /\ UNCHANGED <<files, fileIndex>>
                   ELSE IF ~writeOk
                   THEN /\ fsRet' = [call EXCEPT !.err = "failed to write file",
                                                 !.id = fileId,
                                                 !.changed = (made # dirs)]
                        /\ UNCHANGED <<files, fileIndex>>
                   ELSE
                   /\ files' = WriteFile(files, absFilePath, data)
                   /\ IF ~execOk
                      THEN /\ fsRet' = [call EXCEPT
                                           !.err = "failed to insert file index",
                                           !.id = fileId, !.changed = TRUE]
                           /\ UNCHANGED fileIndex
                      ELSE /\ fileIndex' = fileIndex \cup {fileIndexRow}
                           /\ fsRet' = [call EXCEPT !.id = fileId, !.changed = TRUE,
                                                    !.row = <<fileIndexRow>>]
    /\ UNCHANGED <<callVars, watchVars, parseVars, threadVars>>

\* Something else than the service changes or truncates a stored file.
Tamper ==
    /\ \E f \in files : \E data \in Datas :
         /\ data # f.data
         /\ files' = WriteFile(files, f.path, data)
    /\ UNCHANGED <<dirs, fileIndex, saved, fsRet, callVars, watchVars, parseVars, threadVars>>

\* GetFile(ctx, owner, fileId).  The two flags say whether the query and
\* ReadFile succeed.
GetFile ==
    /\ \E owner \in Owners, n \in 1..(saved + 1), queryOk \in BOOLEAN, readOk \in BOOLEAN :
         LET fileId == FileId(n)
             rows == {r \in fileIndex : r.ID = fileId /\ r.Owner = owner}
             call == [NoCall EXCEPT !.op = "GetFile", !.owner = owner, !.id = fileId]
         IN  IF rows = {}
             THEN fsRet' = [call EXCEPT !.err = "file not found"]
             ELSE IF ~queryOk
             THEN fsRet' = [call EXCEPT !.err = "failed to query file index"]
             ELSE
             LET metadata == CHOOSE r \in rows : TRUE
                 filePath == metadata.FilePath
                 found == [call EXCEPT !.path = filePath]
             IN  IF EscapesRoot(filePath)
                 THEN fsRet' = [found EXCEPT !.err = "file path escapes root"]
                 ELSE IF ~readOk \/ ~HasFile(filePath)
                 THEN fsRet' = [found EXCEPT !.err = "failed to read file"]
                 ELSE
                 LET data == ContentOf(filePath)
                 IN  IF metadata.Checksum # Sum256(data) \/ metadata.Size # Len(data)
                     THEN fsRet' = [found EXCEPT
                                      !.err = "file checksum or size mismatch"]
                     ELSE fsRet' = [found EXCEPT !.data = data, !.row = <<metadata>>]
    /\ UNCHANGED <<dirs, files, fileIndex, saved, callVars, watchVars, parseVars, threadVars>>

FileNext == SaveFile \/ Tamper \/ GetFile

FileSpec == Init /\ [][FileNext]_vars

\* ------------------------------------------------------- concurrent calls

\* Two calls of the operations, and two of the watcher, in flight together.
ConcurrentCalls == {"c1", "c2"}
ConcurrentWatchers == {"w1", "w2"}

\* Longest device list, and events per watcher, while two calls run together.
MaxConcurrentDevices == 1
MaxConcurrentEvents == 1

ConcurrentInit ==
    /\ op = [c \in ConcurrentCalls |-> "none"]
    /\ arg = [c \in ConcurrentCalls |-> NoArg]
    /\ pc = [c \in ConcurrentCalls |-> "idle"]
    /\ ctxDone = [c \in ConcurrentCalls |-> FALSE]
    /\ first = [c \in ConcurrentCalls |-> "none"]
    /\ wk = [c \in ConcurrentCalls |-> "none"]
    /\ wres = [c \in ConcurrentCalls |-> NoResult]
    /\ ret = [c \in ConcurrentCalls |-> NoResult]
    /\ devs = [c \in ConcurrentCalls |-> <<>>]
    /\ idx = [c \in ConcurrentCalls |-> 0]
    /\ deviceState = [c \in ConcurrentCalls |-> "StateInvalid"]
    /\ devicesList = [c \in ConcurrentCalls |-> <<>>]
    /\ tlog = [c \in ConcurrentCalls |-> <<>>]
    /\ wserial = [w \in ConcurrentWatchers |-> ""]
    /\ wctx = [w \in ConcurrentWatchers |-> FALSE]
    /\ wpc = [w \in ConcurrentWatchers |-> "idle"]
    /\ upOffer = [w \in ConcurrentWatchers |-> <<>>]
    /\ upClosed = [w \in ConcurrentWatchers |-> FALSE]
    /\ pending = [w \in ConcurrentWatchers |-> <<>>]
    /\ consumed = [w \in ConcurrentWatchers |-> <<>>]
    /\ delivered = [w \in ConcurrentWatchers |-> <<>>]
    /\ closes = [w \in ConcurrentWatchers |-> 0]
    /\ wcaller = [w \in ConcurrentWatchers |-> "idle"]
    /\ ParseInit
    /\ FileInit

\* The transport's answers stay within the bounds above.
ConcurrentBounds ==
    /\ \A c \in ConcurrentCalls : Len(devs[c]) <= MaxConcurrentDevices
    /\ \A w \in ConcurrentWatchers :
          Len(consumed[w]) + Len(upOffer[w]) <= MaxConcurrentEvents

\* No operation, and no watcher, has been called or had its context cancelled.
NoOperationCalled == \A c \in ConcurrentCalls : pc[c] = "idle" /\ ~ctxDone[c]
NoWatcherCalled == \A w \in ConcurrentWatchers : wcaller[w] = "idle" /\ ~wctx[w]

\* The operations and the watcher have no variable in common, so a behaviour
\* runs two operations together or two watchers together; each step keeps the
\* transport's answers within the bounds.
OperationsStep == NoWatcherCalled /\ ConcurrentBounds'
WatchersStep == NoOperationCalled /\ ConcurrentBounds'

ConcurrentCallNext ==
    \E c \in ConcurrentCalls :
        \/ Call(c) /\ OperationsStep
        \/ Cancel(c) /\ OperationsStep
        \/ ServerVersionReturns(c) /\ OperationsStep
        \/ ListDevicesReturns(c) /\ OperationsStep
        \/ StateReturns(c) /\ OperationsStep
        \/ GetpropReturns(c) /\ OperationsStep
        \/ GetDeviceReturns(c) /\ OperationsStep
        \/ RunCommandReturns(c) /\ OperationsStep
        \/ SelectResult(c) /\ OperationsStep
        \/ SelectCancel(c) /\ OperationsStep

ConcurrentWatchNext ==
    \E w \in ConcurrentWatchers :
        \/ Subscribe(w) /\ WatchersStep
        \/ Track(w) /\ WatchersStep
        \/ WatchCancel(w) /\ WatchersStep
        \/ UpstreamOffer(w) /\ WatchersStep
        \/ UpstreamClose(w) /\ WatchersStep
        \/ WatcherDone(w) /\ WatchersStep
        \/ WatcherUpstreamClosed(w) /\ WatchersStep
        \/ WatcherReceive(w) /\ WatchersStep
        \/ Deliver(w) /\ WatchersStep
        \/ DeliverDone(w) /\ WatchersStep

ConcurrentNext == ConcurrentCallNext \/ ConcurrentWatchNext

ConcurrentSpec == ConcurrentInit /\ [][ConcurrentNext]_vars

\* ------------------------------------------------ the cancellation wrapper

\* Call c returned ctx.Err() with the zero value of its operation.
ReturnedCancelError(c) ==
    /\ pc[c] = "returned"
    /\ ret[c].err = ErrCanceled
    /\ ret[c].val = (IF op[c] = "Version" THEN 0 ELSE NilList)

\* Call c returned what its worker sent, value and error unchanged.
ReturnedWorkerResult(c) ==
    /\ pc[c] = "returned"
    /\ wk[c] = "done"
    /\ ret[c] = wres[c]

\* The worker of call c is still inside a transport call (or between two).
InTransport(c) == wk[c] \notin {"none", "send", "done"}

ExpectedChanges(serial, events) ==
    LET Match(e) == e.Serial = serial
        matching == SelectSeq(events, Match)
    IN  [i \in 1..Len(matching) |->
            [Serial |-> serial,
             OldState |-> convertState(matching[i].OldState),
             NewState |-> convertState(matching[i].NewState)]]

IsPrefix(s, t) == Len(s) <= Len(t) /\ SubSeq(t, 1, Len(s)) = s

\* C3: once the context of a started watcher is cancelled its output channel
\* is eventually closed, whatever the transport and the consumer do.
C3_CancelClosesStream ==
    \A w \in Watchers : (wctx[w] /\ wpc[w] # "idle") ~> (wpc[w] = "closed")

\* The stream was closed under cancellation with a matching change that no
\* consumer received.
C3_Witness ==
    \E w \in Watchers :
        /\ wpc[w] = "closed"
        /\ wctx[w]
        /\ ~upClosed[w]
        /\ Len(delivered[w]) < Len(ExpectedChanges(wserial[w], consumed[w]))

\* C4: with a consumer that keeps receiving, once the transport has closed its
\* event channel the output channel is eventually closed unless the context is
\* cancelled; and when the stream closes under an uncancelled context the
\* upstream is closed and every matching event received has been delivered.
C4_UpstreamCloseClosesStream ==
    /\ \A w \in Watchers : upClosed[w] ~> (wpc[w] = "closed" \/ wctx[w])
    /\ [][\A w \in Watchers :
            (wpc[w] # "closed" /\ wpc'[w] = "closed" /\ ~wctx[w]) =>
                /\ upClosed[w]
                /\ delivered'[w] = ExpectedChanges(wserial[w], consumed[w])]_vars

\* The stream closed on upstream closure alone, after delivering a change.
C4_Witness ==
    \E w \in Watchers :
        /\ wpc[w] = "closed"
        /\ ~wctx[w]
        /\ upClosed[w]
        /\ delivered[w] # <<>>

\* C5: the consumer has received only changes of the watched serial, the i-th
\* being the normalized i-th matching event consumed; never more than there
\* are matching events consumed, at most one fewer, and exactly as many
\* whenever the context is not cancelled and no delivery is in progress.
C5_OneChangePerMatchingEvent ==
    \A w \in Watchers :
        LET owed == ExpectedChanges(wserial[w], consumed[w])
        IN  /\ Len(delivered[w]) <= Len(owed)
            /\ Len(owed) - Len(delivered[w]) <= 1
            /\ \A i \in 1..Len(delivered[w]) :
                   /\ delivered[w][i].Serial = wserial[w]
                   /\ delivered[w][i] = owed[i]
            /\ (wpc[w] = "deliver") =>
                   /\ Len(delivered[w]) = Len(owed) - 1
                   /\ pending[w] = <<owed[Len(owed)]>>
            /\ (~wctx[w] /\ wpc[w] # "deliver") => Len(delivered[w]) = Len(owed)

\* A watcher has consumed an event of another serial and one of its own, and
\* the consumer has received exactly one change.
C5_Witness ==
    \E w \in Watchers :
        /\ \E i \in 1..Len(consumed[w]) : consumed[w][i].Serial # wserial[w]
        /\ \E i \in 1..Len(consumed[w]) : consumed[w][i].Serial = wserial[w]
        /\ Len(delivered[w]) = 1
        /\ ~wctx[w]

\* C6: what the consumer has received is, in order, a prefix of the changes of
\* the matching events in the order the transport sent them, and it only ever
\* grows at its end.
C6_UpstreamOrderKept ==
    /\ [](\A w \in Watchers :
            IsPrefix(delivered[w],
                     ExpectedChanges(wserial[w], consumed[w] \o upOffer[w])))
    /\ [][\A w \in Watchers :
            \/ delivered'[w] = delivered[w]
            \/ /\ Len(delivered'[w]) = Len(delivered[w]) + 1
               /\ SubSeq(delivered'[w], 1, Len(delivered[w])) = delivered[w]]_vars

\* ------------------------------------------------------ the device registry

\* Reading the transport log of a Devices call.
ListAnswered(c) == tlog[c] # <<>> /\ tlog[c][1].reply # <<>>
ListReply(c) == tlog[c][1].reply[1]

\* The positions in the log of the state queries, in order: one per device
\* the loop has reached.
StatePos(c) ==
    LET IsState(p) == tlog[c][p].call = "State"
    IN  SelectSeq([p \in 1..Len(tlog[c]) |-> p], IsState)

StateReplyOf(c, i) == tlog[c][StatePos(c)[i]].reply[1]

\* Whether a manufacturer query followed the state query of device i.
HasProp(c, i) ==
    LET p == StatePos(c)[i]
    IN  Len(tlog[c]) > p /\ tlog[c][p + 1].call = "getprop"

PropReplyOf(c, i) == tlog[c][StatePos(c)[i] + 1].reply[1]

\* The manufacturer a record is to carry, given the device's replies.
OwedManufacturer(stateReply, hasProp, propReply) ==
    IF stateReply.err = ErrNil /\ hasProp /\ propReply.err = ErrNil
                               /\ TrimSpace(propReply.out) # <<>>
    THEN TrimSpace(propReply.out)
    ELSE Unknown

\* The record of a device whose state query succeeded: a function of that
\* device's own entry and replies alone.
HealthyRecord(info, stateReply, propReply) ==
    [Serial |-> info.Serial,
     State |-> convertState(stateReply.state),
     Model |-> info.Model,
     Manufacturer |-> OwedManufacturer(stateReply, TRUE, propReply),
     IsAuthorized |-> (stateReply.state = "StateOnline")]

\* Devices has returned a list without an error.
DevicesSucceeded(c) ==
    pc[c] = "returned" /\ op[c] = "Devices" /\ ret[c].err = ErrNil

\* C7: a Devices call that returns a list returns one record per device the
\* transport enumerated, whichever state queries failed: a device whose state
\* query failed has state Unknown, manufacturer "Unknown" and is not
\* authorized; every other record is what that device's own replies give.
C7_FailedQueriesDegradeOneRecord ==
    \A c \in Calls :
        DevicesSucceeded(c) =>
            LET got == ret[c].val.items
                listed == ListReply(c).list
            IN  /\ Len(got) = Len(listed)
                /\ \A i \in 1..Len(listed) :
                      IF StateReplyOf(c, i).err # ErrNil
                      THEN /\ got[i].State = DeviceStateUnknown
                           /\ got[i].Manufacturer = Unknown
                           /\ got[i].IsAuthorized = FALSE
                      ELSE /\ HasProp(c, i)
                           /\ got[i] = HealthyRecord(listed[i], StateReplyOf(c, i),
                                                     PropReplyOf(c, i))

\* Devices returned two records: the first device's state query failed (with
\* a reply that says online), the second is online with a manufacturer.
C7_Witness ==
    \E c \in Calls :
        /\ DevicesSucceeded(c)
        /\ Len(ret[c].val.items) = 2
        /\ StateReplyOf(c, 1).err # ErrNil
        /\ StateReplyOf(c, 1).state = "StateOnline"
        /\ ret[c].val.items[2].State = DeviceStateOnline
        /\ ret[c].val.items[2].Manufacturer = <<"A", "c", "m", "e">>

\* C8: the list a successful Devices call returns is as long as the
\* transport's list, its i-th record has the serial and model of the i-th
\* entry, and every state is a value of the DeviceState enum.
C8_ListKeepsEnumeration ==
    \A c \in Calls :
        DevicesSucceeded(c) =>
            LET got == ret[c].val.items
                listed == ListReply(c).list
            IN  /\ ~ret[c].val.nil
                /\ Len(got) = Len(listed)
                /\ \A i \in 1..Len(listed) :
                      /\ got[i].Serial = listed[i].Serial
                      /\ got[i].Model = listed[i].Model
                      /\ got[i].State \in DeviceState

\* Devices returned the records of two different devices.
C8_Witness ==
    \E c \in Calls :
        /\ DevicesSucceeded(c)
        /\ Len(ret[c].val.items) = 2
        /\ ret[c].val.items[1].Serial # ret[c].val.items[2].Serial

C10_ManufacturerOnlyAfterState ==
    \A c \in Calls :
        op[c] = "Devices" =>
            /\ \A p \in 1..Len(tlog[c]) :
                  /\ (tlog[c][p].call = "State" /\ tlog[c][p].reply # <<>>) =>
                        ((tlog[c][p].reply[1].err = ErrNil)
                           <=> (/\ Len(tlog[c]) > p
                                /\ tlog[c][p + 1].call = "getprop"
                                /\ tlog[c][p + 1].target = tlog[c][p].target))
                  /\ tlog[c][p].call = "getprop" =>
                        /\ p > 1
                        /\ tlog[c][p - 1].call = "State"
                        /\ tlog[c][p - 1].reply # <<>>
                        /\ tlog[c][p - 1].reply[1].err = ErrNil
            /\ \A i \in 1..Len(devicesList[c]) :
                  devicesList[c][i].Manufacturer =
                      OwedManufacturer(StateReplyOf(c, i), HasProp(c, i),
                                       IF HasProp(c, i) THEN PropReplyOf(c, i)
                                       ELSE [out |-> <<>>, err |-> ErrTransport])

\* A worker has built two records: one after a failed state query, without a
\* manufacturer query, and one with the trimmed manufacturer.
C10_Witness ==
    \E c \in Calls :
        /\ op[c] = "Devices"
        /\ Len(devicesList[c]) = 2
        /\ StateReplyOf(c, 1).err # ErrNil
        /\ ~HasProp(c, 1)
        /\ devicesList[c][1].Manufacturer = Unknown
        /\ HasProp(c, 2)
        /\ PropReplyOf(c, 2).out = <<" ", "A", "c", "m", "e", "\n">>
        /\ devicesList[c][2].Manufacturer = <<"A", "c", "m", "e">>

\* The consumer has received two different changes, the transport's first first.
C6_Witness ==
    \E w \in Watchers :
        /\ Len(delivered[w]) >= 2
        /\ delivered[w][1] # delivered[w][2]

\* C11: every Device record a Devices call builds, and every record of the
\* list it returns, has IsAuthorized exactly when its State is Online,
\* whatever the state and manufacturer queries replied or failed with.
C11_AuthorizedIffOnline ==
    \A c \in Calls :
        op[c] = "Devices" =>
            /\ \A i \in 1..Len(devicesList[c]) :
                  devicesList[c][i].IsAuthorized
                      <=> (devicesList[c][i].State = DeviceStateOnline)
            /\ DevicesSucceeded(c) =>
                  \A i \in 1..Len(ret[c].val.items) :
                      ret[c].val.items[i].IsAuthorized
                          <=> (ret[c].val.items[i].State = DeviceStateOnline)

\* Devices returned an authorized online device followed by a device that is
\* not authorized: its state query failed with a reply that says online.
C11_Witness ==
    \E c \in Calls :
        /\ DevicesSucceeded(c)
        /\ Len(ret[c].val.items) = 2
        /\ ret[c].val.items[1].State = DeviceStateOnline
        /\ ret[c].val.items[1].IsAuthorized
        /\ StateReplyOf(c, 2).err # ErrNil
        /\ StateReplyOf(c, 2).state = "StateOnline"
        /\ ret[c].val.items[2].State = DeviceStateUnknown
        /\ ~ret[c].val.items[2].IsAuthorized

\* ------------------------------------------------------------ the normalizer

\* The raw state devices() settled on for its i-th device: the reply of the
\* state query, or the invalid sentinel when the query failed.
SettledState(c, i) ==
    IF StateReplyOf(c, i).err # ErrNil THEN "StateInvalid"
    ELSE StateReplyOf(c, i).state

\* C12: convertState has a value for every raw state; it takes online, offline
\* and unauthorized to Online, Offline and Unauthorized, three different
\* values, and every other raw state, the invalid sentinel of a failed query
\* included, to Unknown; its range is {Online, Offline, Unauthorized, Unknown},
\* without Booting; and every record devices() builds carries the value this
\* table gives for the raw state the device's query settled on.
C12_ConvertStateTotal ==
    LET table == [s \in RawStates |->
                     IF s = "StateOnline" THEN DeviceStateOnline
                     ELSE IF s = "StateOffline" THEN DeviceStateOffline
                     ELSE IF s = "StateUnauthorized" THEN DeviceStateUnauthorized
                     ELSE DeviceStateUnknown]
        recognized == {"StateOnline", "StateOffline", "StateUnauthorized"}
        range == {convertState(s) : s \in RawStates}
    IN  /\ \A s \in RawStates : convertState(s) = table[s]
        /\ \A s, t \in recognized : convertState(s) = convertState(t) => s = t
        /\ {convertState(s) : s \in recognized}
              = {DeviceStateOnline, DeviceStateOffline, DeviceStateUnauthorized}
        /\ \A s \in RawStates \ recognized : convertState(s) = DeviceStateUnknown
        /\ range = {DeviceStateOnline, DeviceStateOffline, DeviceStateUnauthorized,
                    DeviceStateUnknown}
        /\ DeviceStateBooting \notin range
        /\ \A c \in Calls :
              op[c] = "Devices" =>
                  \A i \in 1..Len(devicesList[c]) :
                      devicesList[c][i].State = table[SettledState(c, i)]

\* A worker has built the records of a device that answered "disconnected",
\* normalized to Unknown, and of one that answered "unauthorized".
C12_Witness ==
    \E c \in Calls :
        /\ op[c] = "Devices"
        /\ Len(devicesList[c]) = 2
        /\ StateReplyOf(c, 1).err = ErrNil
        /\ StateReplyOf(c, 1).state = "StateDisconnected"
        /\ devicesList[c][1].State = DeviceStateUnknown
        /\ StateReplyOf(c, 2).err = ErrNil
        /\ StateReplyOf(c, 2).state = "StateUnauthorized"
        /\ devicesList[c][2].State = DeviceStateUnauthorized

\* ------------------------------------------------------ the package listing

\* The listing read line by line: the texts between its line feeds, and the
\* text after the last one when there is any.
ListingLines(out) ==
    LET breaks == {i \in 1..Len(out) : out[i] = "\n"}
        ends == IF out # <<>> /\ out[Len(out)] # "\n"
                THEN breaks \cup {Len(out) + 1} ELSE breaks
        EndOf(k) == CHOOSE e \in ends : Cardinality({x \in ends : x <= e}) = k
        StartOf(k) == IF k = 1 THEN 1 ELSE EndOf(k - 1) + 1
    IN  [k \in 1..Cardinality(ends) |-> SubSeq(out, StartOf(k), EndOf(k) - 1)]

\* A text without the white space around it.
Stripped(t) ==
    LET ink == {i \in 1..Len(t) : t[i] \notin Space}
    IN  IF ink = {} THEN <<>>
        ELSE SubSeq(t, CHOOSE i \in ink : \A j \in ink : i <= j,
                       CHOOSE i \in ink : \A j \in ink : j <= i)

\* A trimmed line that starts with `package:` and contains `=`.
IsPackageLine(t) ==
    /\ Len(t) >= Len(PackagePrefix)
    /\ \A j \in 1..Len(PackagePrefix) : t[j] = PackagePrefix[j]
    /\ \E j \in 1..Len(t) : t[j] = "="

\* The Package such a line stands for.
PackageOfLine(t) ==
    LET eq == CHOOSE j \in 1..Len(t) :
                  t[j] = "=" /\ \A m \in (j + 1)..Len(t) : t[m] # "="
        path == SubSeq(t, Len(PackagePrefix) + 1, eq - 1)
    IN  [Name |-> Stripped(SubSeq(t, eq + 1, Len(t))),
         ApkPath |-> path,
         IsSystem |-> \E j \in 1..(Len(path) - Len(SystemSegment) + 1) :
                          \A m \in 1..Len(SystemSegment) :
                              path[j + m - 1] = SystemSegment[m]]

\* The packages a listing stands for: one per package line, in input order.
PackagesOfListing(out) ==
    LET lines == ListingLines(out)
        kept == SelectSeq([k \in 1..Len(lines) |-> Stripped(lines[k])], IsPackageLine)
    IN  [i \in 1..Len(kept) |-> PackageOfLine(kept[i])]

\* C13: for every listing, packages() returns without an error, in input
\* order, exactly one Package per line that after trimming starts with
\* `package:` and contains `=`, and nothing for any other line; its apkPath is
\* the text between the prefix and the last `=`, its name the trimmed text
\* after the last `=`, and isSystem says whether the apkPath contains
\* "/system/".
C13_OnePackagePerPackageLine ==
    pmResult.err # "none" =>
        /\ pmResult.err = ErrNil
        /\ pmResult.val.items = PackagesOfListing(pmOut)

\* C13, for the listings the scanner gets through: the same, whenever no line
\* of the listing is as long as the scanner's buffer; with such a line
\* packages() returns the scanner's error and no packages.
C13_ShortLinesParsed ==
    pmResult.err # "none" =>
        LET lines == ListingLines(pmOut)
            long == \E k \in 1..Len(lines) : \E j \in 1..Len(lines[k]) :
                        lines[k][j] = LongRun
        IN  IF long
            THEN pmResult = [val |-> NilList, err |-> ErrTooLong]
            ELSE /\ pmResult.err = ErrNil
                 /\ pmResult.val.items = PackagesOfListing(pmOut)
                 /\ pmResult.val.nil <=> pmResult.val.items = <<>>

\* --------------------------------------------------- the command dispatcher

\* The remote commands a Packages call has issued.
CommandsOf(c) ==
    SelectSeq(tlog[c], LAMBDA e : e.call = "pm list packages")

\* C14: the argument list a Packages call passes to `pm list packages` has
\* `-f` first and only there, then `-u` exactly when IncludeUninstalled, then
\* as its last argument `-s` when IncludeSystem and `-3` when not, and never
\* both `-s` and `-3`.
C14_ArgumentsFollowOptions ==
    \A c \in Calls :
        op[c] = "Packages" =>
            \A k \in 1..Len(CommandsOf(c)) :
                LET args == CommandsOf(c)[k].args
                    opts == arg[c].opts
                    At(flag) == {i \in 1..Len(args) : args[i] = flag}
                IN  /\ At("-f") = {1}
                    /\ At("-u") = (IF opts.IncludeUninstalled THEN {2} ELSE {})
                    /\ At("-s") = (IF opts.IncludeSystem THEN {Len(args)} ELSE {})
                    /\ At("-3") = (IF opts.IncludeSystem THEN {} ELSE {Len(args)})
                    /\ Len(args) = (IF opts.IncludeUninstalled THEN 3 ELSE 2)
                    /\ ~(At("-s") # {} /\ At("-3") # {})

\* A Packages call with both options set has run the command with -f -u -s.
C14_Witness ==
    \E c \in Calls :
        /\ op[c] = "Packages"
        /\ arg[c].opts = [IncludeSystem |-> TRUE, IncludeUninstalled |-> TRUE]
        /\ Len(CommandsOf(c)) = 1
        /\ CommandsOf(c)[1].args = <<"-f", "-u", "-s">>

\* Reading the transport log of a Packages call.
HandleAnswered(c) == tlog[c] # <<>> /\ tlog[c][1].call = "Device"
HandleFound(c) == tlog[c][1].reply[1].handle
CommandFailed(c) ==
    /\ Len(CommandsOf(c)) = 1
    /\ CommandsOf(c)[1].reply # <<>>
    /\ CommandsOf(c)[1].reply[1].err # ErrNil

\* What a Packages call whose worker came to `result` may return: that, or
\* the cancellation error when its context is cancelled.
ReturnsOrCancelled(c, result) ==
    /\ wres[c] = result
    /\ pc[c] = "returned" =>
          \/ ret[c] = result
          \/ ctxDone[c] /\ ret[c] = [val |-> NilList, err |-> ErrCanceled]

\* C15: a Packages call whose serial resolves to no handle never runs the
\* remote command and returns "device not found" and no packages; one whose
\* handle resolves and whose command fails returns the command's error and no
\* packages (either, unless its select takes the cancellation of its context).
C15_NotFoundAndCommandErrors ==
    \A c \in Calls :
        (op[c] = "Packages" /\ HandleAnswered(c)) =>
            /\ ~HandleFound(c) =>
                  /\ CommandsOf(c) = <<>>
                  /\ Len(tlog[c]) = 1
                  /\ ReturnsOrCancelled(c, [val |-> NilList,
                                            err |-> "device not found"])
            /\ (HandleFound(c) /\ CommandFailed(c)) =>
                  ReturnsOrCancelled(c, [val |-> NilList,
                                        err |-> CommandsOf(c)[1].reply[1].err])

\* A Packages call returned "device not found" and no packages without
\* having run a command.
C15_Witness ==
    \E c \in Calls :
        /\ op[c] = "Packages"
        /\ HandleAnswered(c)
        /\ ~HandleFound(c)
        /\ pc[c] = "returned"
        /\ ret[c] = [val |-> NilList, err |-> "device not found"]
        /\ CommandsOf(c) = <<>>

\* ------------------------------------------------------ the calling thread

\* C16: in no public operation is the calling thread ever inside a transport
\* call: a caller of Version, Devices or Packages is before its call, at its
\* select or back from it, and a caller of TrackDeviceStates is never inside
\* the event subscription.
C16_CallerNeverInTransport ==
    /\ \A c \in Calls : pc[c] \in {"idle", "select", "returned"}
    /\ \A w \in Watchers : wcaller[w] # "NewDeviceWatcher"

\* C17: Install, Uninstall, Pull and Push are operations of the bridge: the
\* interface declares them and the bridge has them, so that they can be
\* called, resolve a handle, surface a failure and be cancelled.
C17_TransfersAreOperations ==
    \A m \in {"Install", "Uninstall", "Pull", "Push"} :
        /\ m \in ADBClientMethods
        /\ m \in GoADBClientMethods
        /\ \A c \in Calls : op[c] \in GoADBClientMethods \cup {"none"}

\* --------------------------------------------------------- the storage root

\* A path is the root or below it.
UnderRoot(path) == Len(path) >= Len(Root) /\ SubSeq(path, 1, Len(Root)) = Root

\* C18: every directory the service has created and every file it has
\* written is the storage root or below it, and a SaveFile whose computed
\* path is not below the root has returned an error and changed nothing on
\* disk.
C18_SaveFileStaysUnderRoot ==
    /\ \A d \in dirs \ InitialDirs : UnderRoot(d)
    /\ \A f \in files : UnderRoot(f.path)
    /\ (fsRet.op = "SaveFile" /\ ~UnderRoot(fsRet.path)) =>
          (fsRet.err # ErrNil /\ ~fsRet.changed)

\* C18, for the paths the string test keeps apart from the root: a file is
\* only ever written at a path whose string starts with the root's string.
C18_WritesOnlyUnderRootString ==
    \A f \in files : HasPrefix(PathString(f.path), PathString(Root))

C19_DataOnlyForMatchingRow ==
    fsRet.op = "GetFile" =>
        IF fsRet.err = ErrNil
        THEN \E r \in fileIndex :
                /\ r.ID = fsRet.id
                /\ r.Owner = fsRet.owner
                /\ HasPrefix(PathString(r.FilePath), PathString(Root))
                /\ r.Checksum = Sum256(fsRet.data)
                /\ r.Size = Len(fsRet.data)
        ELSE fsRet.data = <<>> /\ fsRet.row = <<>>

\* ------------------------------------------------------ the watcher's end

\* C20: the output channel of a watcher is closed exactly when its goroutine
\* has terminated, and then exactly once; and from then on, whatever the
\* transport, the consumer and the context do, the goroutine stays terminated,
\* the channel is not closed again, no value is sent on it and no upstream
\* event is consumed.
C20_TerminatedOnce ==
    /\ [](\A w \in Watchers :
            closes[w] = (IF wpc[w] = "closed" THEN 1 ELSE 0))
    /\ [][\A w \in Watchers :
            wpc[w] = "closed" =>
                /\ wpc'[w] = "closed"
                /\ closes'[w] = closes[w]
                /\ delivered'[w] = delivered[w]
                /\ consumed'[w] = consumed[w]
                /\ pending'[w] = <<>>]_vars

\* A watcher has terminated with both triggers present, its context cancelled
\* and the upstream closed, after consuming events and delivering a change,
\* and its channel has been closed once.
C20_Witness ==
    \E w \in Watchers :
        /\ wpc[w] = "closed"
        /\ wctx[w]
        /\ upClosed[w]
        /\ closes[w] = 1
        /\ Len(consumed[w]) >= 2
        /\ delivered[w] # <<>>

\* ------------------------------------------------------- concurrent calls

\* Everything call c, and everything watcher w, has of its own.
CallView(c) ==
    <<op[c], arg[c], pc[c], ctxDone[c], first[c], wk[c], wres[c], ret[c], devs[c],
      idx[c], deviceState[c], devicesList[c], tlog[c]>>

WatchView(w) ==
    <<wserial[w], wctx[w], wpc[w], upOffer[w], upClosed[w], pending[w],
      consumed[w], delivered[w], closes[w], wcaller[w]>>

\* What Version's worker makes of the reply to its own transport call.
OwnVersionOutcome(c) ==
    [val |-> tlog[c][1].reply[1].ver, err |-> tlog[c][1].reply[1].err]

\* C21: with two operations, or two watchers, in flight together, a step
\* changes the state of one of them only.  A call returns only by its own
\* select: its own worker's result, taken from that worker, which is the
\* outcome of its own transport call, or the cancellation error under its own
\* cancelled context; a worker's pending result is taken by its own caller
\* alone, and a case of a select is ready whatever the other call does.  A
\* watcher's output channel is closed only by its own goroutine, under its
\* own cancelled context or its own closed subscription; an event offered on
\* its subscription is removed only by its own receive; and its consumer
\* receives only its own pending change.
C21_ConcurrentCallsShareNothing ==
    [][/\ \A c \in ConcurrentCalls : \A d \in ConcurrentCalls \ {c} :
            CallView(c)' # CallView(c) => CallView(d)' = CallView(d)
       /\ \A w \in ConcurrentWatchers : \A v \in ConcurrentWatchers \ {w} :
            WatchView(w)' # WatchView(w) => WatchView(v)' = WatchView(v)
       /\ \A c \in ConcurrentCalls :
            /\ ResultReady(c) <=> wk[c] = "send"
            /\ DoneReady(c) <=> ctxDone[c]
            /\ ret'[c] # ret[c] => (pc[c] = "select" /\ pc'[c] = "returned")
            /\ (pc[c] = "select" /\ pc'[c] = "returned") =>
                  \/ /\ wk[c] = "send"
                     /\ ReturnedWorkerResult(c)'
                     /\ op[c] = "Version" => ret'[c] = OwnVersionOutcome(c)
                  \/ /\ ctxDone[c]
                     /\ ReturnedCancelError(c)'
                     /\ wk'[c] = wk[c]
            /\ (wk[c] = "send" /\ wk'[c] # "send") =>
                  (pc[c] = "select" /\ ReturnedWorkerResult(c)')
       /\ \A w \in ConcurrentWatchers :
            /\ closes'[w] # closes[w] =>
                  /\ closes'[w] = closes[w] + 1
                  /\ wpc[w] \in {"select", "deliver"}
                  /\ wpc'[w] = "closed"
                  /\ wctx[w] \/ (upClosed[w] /\ upOffer[w] = <<>>)
            /\ (upOffer[w] # <<>> /\ upOffer'[w] # upOffer[w]) =>
                  /\ wpc[w] = "select"
                  /\ upOffer'[w] = <<>>
                  /\ consumed'[w] = Append(consumed[w], upOffer[w][1])
            /\ consumed'[w] # consumed[w] => upOffer[w] # <<>>
            /\ delivered'[w] # delivered[w] =>
                  /\ wpc[w] = "deliver"
                  /\ delivered'[w] = Append(delivered[w], pending[w][1])
                  /\ pending[w][1].Serial = wserial[w]
            /\ (wpc[w] # "closed" /\ wpc'[w] = "closed") =>
                  closes'[w] = closes[w] + 1]_vars

\* Two Version calls ran together: the first returned the cancellation error
\* while its worker is left holding a version, the second returned the
\* transport error of its own call.
C21_Witness ==
    /\ op["c1"] = "Version" /\ op["c2"] = "Version"
    /\ ReturnedCancelError("c1")
    /\ wk["c1"] = "send"
    /\ wres["c1"].err = ErrNil
    /\ ReturnedWorkerResult("c2")
    /\ ret["c2"].err = ErrTransport

\* Two watchers of one serial ran together: the first was cancelled and its
\* channel closed before it consumed an event, the second is still open and
\* its consumer has received the change of its own subscription.
ConcurrentWatchersReached ==
    /\ wserial["w1"] = wserial["w2"]
    /\ wpc["w1"] = "closed" /\ wctx["w1"] /\ consumed["w1"] = <<>>
    /\ wpc["w2"] = "select" /\ ~wctx["w2"] /\ closes["w2"] = 0
    /\ Len(delivered["w2"]) = 1

\* ------------------------------------------------------ the worker's end

\* The worker of call c has its result and is blocked sending it, and its
\* caller has returned: nothing receives from the channel any more.
LeftBlocked(c) == pc[c] = "returned" /\ wk[c] = "send"

\* C22 as stated: no worker whose transport call has returned is left blocked
\* on its completion channel once its caller has returned; the late result is
\* discarded and the worker ends.
C22_NoWorkerLeftBlocked == \A c \in Calls : ~LeftBlocked(c)

\* A worker left blocked stays blocked: whatever happens next, it is still
\* at its send.
C22_LeftBlockedForever ==
    [][\A c \in Calls : LeftBlocked(c) => LeftBlocked(c)']_vars

\* A worker ends exactly by its caller's select taking its result: every
\* worker that has ended belongs to a call that returned that result.
C22_WorkerEndsOnlyByReceive ==
    \A c \in Calls : wk[c] = "done" <=> ReturnedWorkerResult(c)

====
